---- MODULE Spec2Model ----
(***************************************************************************)
(* Model of src/helpers/storage-records.js: the record store that keeps    *)
(* words in a catalog -> record sets -> daily records hierarchy on top of   *)
(* an asynchronous key-value storage.                                       *)
(*                                                                          *)
(* Every public operation is a chain of promise callbacks; a callback runs  *)
(* to its next storage call without interruption, so one action of the      *)
(* model is one callback (from the resolution of a storage call up to the   *)
(* issue of the next one).                                                  *)
(***************************************************************************)
EXTENDS Integers, Sequences, FiniteSets, TLC

VARIABLES
  store,     \* storage.local: key -> stored value
  now,       \* the wall clock, Date.now()
  calls,     \* the calls in flight: the position and locals of each promise chain
  removals,  \* storage.local.remove calls issued without awaiting their promise
  ret,       \* history: the settlement of the call that completed in the last step
  prev,      \* history: the last addRecord or clearRecords that settled before ret
  ops,       \* number of calls made so far that count for the bound
  limit      \* how many calls the callers keep in flight at the same time

vars == <<store, now, calls, removals, ret, prev, ops, limit>>

----------------------------------------------------------------------------
(* Bounds of the model *)

\* calls that can be in flight at the same time
NCalls == 2
\* calls made in one behaviour of overlapping calls
MaxOps == 2
\* addRecord and clearRecords calls made in one behaviour of one call at a
\* time, where the calls that only read leave no trace and are not counted
MaxSeqOps == 3
\* clock ticks in one behaviour
MaxTicks == 2
\* clock ticks in one calendar day
TicksPerDay == 2

(* Constants of the program *)

\* catalog.data.length > 20
MaxSets == 20
\* latestSet.wordCount >= 500
RolloverThreshold == 500

Areas == {"a", "b"}
\* A word is a string of which the program reads nothing but its identity
\* (indexOf); the model names the words 1, 2, ...  The words added to each
\* area are new to a seeded store.
Words(area) ==
  IF area = "a" THEN {RolloverThreshold + 1, RolloverThreshold + 2, RolloverThreshold + 3}
  ELSE {RolloverThreshold + 1}
\* the area that is read
ReadAreas == {"a"}
\* the pages asked for: the first one, and the first one past a full catalog
Indexes == {0, MaxSets}

----------------------------------------------------------------------------
(* JavaScript values *)

\* the value of a missing key, property or argument
Undefined == [undefined |-> TRUE]

\* NaN, the result of arithmetic on undefined. Counts are never negative, so
\* the number -1 stands for it; Plus and Minus keep it absorbing.
NaN == -1

Plus(a, b) == IF a = NaN \/ b = NaN THEN NaN ELSE a + b

Minus(a, b) == IF a = NaN \/ b = NaN THEN NaN ELSE a - b

\* Array.prototype.indexOf, 0-based, -1 when absent
indexOf(arr, x) ==
  IF \E i \in 1..Len(arr) : arr[i] = x
  THEN (CHOOSE i \in 1..Len(arr) : arr[i] = x /\ \A j \in 1..(i - 1) : arr[j] # x) - 1
  ELSE -1

\* Array.prototype.splice(index, 1), index 0-based
splice1(arr, index) ==
  [i \in 1..(Len(arr) - 1) |-> IF i <= index THEN arr[i] ELSE arr[i + 1]]

\* Array.prototype.unshift
unshift(arr, x) == <<x>> \o arr

\* the array left by Array.prototype.pop
popped(arr) == SubSeq(arr, 1, Len(arr) - 1)

Range(arr) == {arr[i] : i \in 1..Len(arr)}

\* j < items, a number compared with an array. The array is converted to a
\* primitive by join(","): the empty array gives "" (the number 0), an array
\* of Record objects gives "[object Object],..." (NaN, and every comparison
\* with NaN is false).
NumberLessThanArray(j, items) == IF Len(items) = 0 THEN j < 0 ELSE FALSE

----------------------------------------------------------------------------
(* The clock and the date key *)

\* the local calendar date at tick 0
Epoch == [year |-> 2017, month |-> 12, date |-> 12]

IsLeap(y) == (y % 4 = 0 /\ y % 100 # 0) \/ y % 400 = 0

DaysInMonth(m, y) ==
  IF m = 2 THEN (IF IsLeap(y) THEN 29 ELSE 28)
  ELSE IF m \in {4, 6, 9, 11} THEN 30 ELSE 31

NextDate(d) ==
  IF d.date < DaysInMonth(d.month, d.year) THEN [d EXCEPT !.date = @ + 1]
  ELSE IF d.month < 12 THEN [d EXCEPT !.date = 1, !.month = @ + 1]
  ELSE [year |-> d.year + 1, month |-> 1, date |-> 1]

RECURSIVE AddDays(_, _)
AddDays(d, n) == IF n = 0 THEN d ELSE AddDays(NextDate(d), n - 1)

\* new Date(): the local calendar date of a clock value
DateOf(t) == AddDays(Epoch, t \div TicksPerDay)

\* getToday: MMDDYYYY
getToday(t) ==
  LET d == DateOf(t)
      month == d.month
      date == d.date
      year == d.year
  IN (IF month < 10 THEN "0" ELSE "") \o ToString(month)
       \o (IF date < 10 THEN "0" ELSE "") \o ToString(date) \o ToString(year)

\* Date.now().toString()
NewId(t) == ToString(t)

----------------------------------------------------------------------------
(* storage.local, the key-value backend (src/helpers/chrome-api) *)

catName(area) == area \o "Cat"

\* get(key or keys): the stored entries of the keys; a missing key is absent
StorageGet(s, keys) == [k \in keys \cap DOMAIN s |-> s[k]]

\* set(items): writes every given key in one step
StorageSet(s, items) ==
  [k \in DOMAIN s \cup DOMAIN items |-> IF k \in DOMAIN items THEN items[k] ELSE s[k]]

\* an array passed as an argument
Array(arr) == [array |-> arr]

\* the keys named by the argument of remove: an array of keys names its
\* elements, undefined names no key
RemoveKeys(arg) == IF arg = Undefined THEN {} ELSE Range(arg.array)

\* remove(key or keys)
StorageRemove(s, arg) == [k \in DOMAIN s \ RemoveKeys(arg) |-> s[k]]

\* res[key]
Lookup(res, key) == IF key \in DOMAIN res THEN res[key] ELSE Undefined

----------------------------------------------------------------------------
(* getLatestSet *)

\* a new empty RecordSet named after the clock
EmptySet(t) == [id |-> NewId(t), data |-> <<>>, wordCount |-> 0]

\* !catalog || catalog.data.length <= 0
NoCatalog(catalog) == catalog = Undefined \/ Len(catalog.data) <= 0

\* no catalog yet: a new set and a catalog that lists it
getLatestSetNew(t) ==
  LET latestSet == EmptySet(t)
  IN [catalog |-> [data |-> <<latestSet.id>>, wordCount |-> 0],
      latestSet |-> latestSet]

\* catalog.data.filter(id => allSets[id])
RECURSIVE filterResolved(_, _)
filterResolved(data, allSets) ==
  IF data = <<>> THEN <<>>
  ELSE IF Lookup(allSets, Head(data)) # Undefined
       THEN <<Head(data)>> \o filterResolved(Tail(data), allSets)
       ELSE filterResolved(Tail(data), allSets)

\* catalog.data.reduce((sum, id) => allSets[id].wordCount + sum, 0)
RECURSIVE reduceWordCount(_, _, _)
reduceWordCount(data, allSets, sum) ==
  IF data = <<>> THEN sum
  ELSE reduceWordCount(Tail(data), allSets, Plus(allSets[Head(data)].wordCount, sum))

\* a variant that drops the missing ids and keeps the old count
getLatestSetHealStale(catalog, latestSet, allSets) ==
  [catalog |-> [catalog EXCEPT
                  !.data = unshift(filterResolved(catalog.data, allSets), latestSet.id)],
   latestSet |-> latestSet]

\* a variant that keeps the ids of the missing sets
getLatestSetHealKeepIds(catalog, latestSet, allSets) ==
  LET data == filterResolved(catalog.data, allSets)
      wordCount == reduceWordCount(data, allSets, 0)
  IN [catalog |-> [catalog EXCEPT !.data = unshift(catalog.data, latestSet.id),
                                  !.wordCount = wordCount],
      latestSet |-> latestSet]

\* the latest set is missing: clean up and recalculate
getLatestSetHeal(catalog, latestSet, allSets) ==
  LET data == filterResolved(catalog.data, allSets)
      wordCount == reduceWordCount(data, allSets, 0)
  IN [catalog |-> [catalog EXCEPT !.data = unshift(data, latestSet.id),
                                  !.wordCount = wordCount],
      latestSet |-> latestSet]

----------------------------------------------------------------------------
(* getTodayItem *)

\* a property of a string primitive that is neither length nor a method
StringProperty(str, name) == Undefined

\* ToNumber of an operand of -=
ToNumber(v) == IF v = Undefined THEN NaN ELSE v

\* latestSet.data.length > 0 && latestSet.data[0].date === today
HasToday(latestSet, today) ==
  Len(latestSet.data) > 0 /\ latestSet.data[1].date = today

\* a variant that never removes the oldest set
openNewSetUncapped(catalog, t) ==
  LET latestSet == EmptySet(t)
  IN [catalog |-> [catalog EXCEPT !.data = unshift(catalog.data, latestSet.id)],
      latestSet |-> latestSet,
      removes |-> <<>>]

\* open a new set; removes lists the storage.local.remove calls issued
openNewSet(catalog, t) ==
  LET latestSet == EmptySet(t)
      data == unshift(catalog.data, latestSet.id)
  IN IF Len(data) > MaxSets
     THEN LET oldestSet == data[Len(data)]
          IN [catalog |-> [catalog EXCEPT
                 !.data = popped(data),
                 !.wordCount = Minus(catalog.wordCount,
                                     ToNumber(StringProperty(oldestSet, "wordCount")))],
              latestSet |-> latestSet,
              removes |-> <<StringProperty(oldestSet, "id")>>]
     ELSE [catalog |-> [catalog EXCEPT !.data = data],
           latestSet |-> latestSet,
           removes |-> <<>>]

\* a variant that opens a new set only over the threshold
getTodayItemOver(catalog, latestSet, t) ==
  LET today == getToday(t)
  IN IF HasToday(latestSet, today)
     THEN [catalog |-> catalog, latestSet |-> latestSet, removes |-> <<>>]
     ELSE LET todayItem == [date |-> today, data |-> <<>>]
              r == IF latestSet.wordCount > RolloverThreshold
                   THEN openNewSet(catalog, t)
                   ELSE [catalog |-> catalog, latestSet |-> latestSet, removes |-> <<>>]
          IN [r EXCEPT !.latestSet.data = unshift(@, todayItem)]

\* a variant that tests the threshold before it looks for today's Record
getTodayItemRotateFirst(catalog, latestSet, t) ==
  LET today == getToday(t)
      todayItem == [date |-> today, data |-> <<>>]
  IN IF latestSet.wordCount >= RolloverThreshold
     THEN [openNewSet(catalog, t) EXCEPT !.latestSet.data = unshift(@, todayItem)]
     ELSE IF HasToday(latestSet, today)
          THEN [catalog |-> catalog, latestSet |-> latestSet, removes |-> <<>>]
          ELSE [catalog |-> catalog,
                latestSet |-> [latestSet EXCEPT !.data = unshift(@, todayItem)],
                removes |-> <<>>]

\* a variant that starts a new Record for today on every call
getTodayItemAlwaysNew(catalog, latestSet, t) ==
  LET today == getToday(t)
      todayItem == [date |-> today, data |-> <<>>]
      r == IF latestSet.wordCount >= RolloverThreshold
           THEN openNewSet(catalog, t)
           ELSE [catalog |-> catalog, latestSet |-> latestSet, removes |-> <<>>]
  IN [r EXCEPT !.latestSet.data = unshift(@, todayItem)]

\* todayItem is latestSet.data[0] of the result
getTodayItem(catalog, latestSet, t) ==
  LET today == getToday(t)
  IN IF HasToday(latestSet, today)
     THEN [catalog |-> catalog, latestSet |-> latestSet, removes |-> <<>>]
     ELSE LET todayItem == [date |-> today, data |-> <<>>]
              r == IF latestSet.wordCount >= RolloverThreshold
                   THEN openNewSet(catalog, t)
                   ELSE [catalog |-> catalog, latestSet |-> latestSet, removes |-> <<>>]
          IN [r EXCEPT !.latestSet.data = unshift(@, todayItem)]

----------------------------------------------------------------------------
(* appendAndSave *)

\* a variant that leaves the catalog's count as it was read
appendCatalogUncounted(res, text, t) ==
  LET todayItem == res.latestSet.data[1]
      index == indexOf(todayItem.data, text)
      isNew == index = -1
      words == unshift(IF isNew THEN todayItem.data ELSE splice1(todayItem.data, index),
                       text)
  IN [latestSet |-> [res.latestSet EXCEPT
                       !.wordCount = IF isNew THEN Plus(@, 1) ELSE @,
                       !.data[1].data = words],
      catalog |-> [data |-> res.catalog.data,
                   wordCount |-> res.catalog.wordCount,
                   timestamp |-> t]]

\* a variant that puts the word in front without removing the old occurrence
appendNoSplice(res, text, t) ==
  LET todayItem == res.latestSet.data[1]
      index == indexOf(todayItem.data, text)
      isNew == index = -1
      words == unshift(todayItem.data, text)
  IN [latestSet |-> [res.latestSet EXCEPT
                       !.wordCount = IF isNew THEN Plus(@, 1) ELSE @,
                       !.data[1].data = words],
      catalog |-> [data |-> res.catalog.data,
                   wordCount |-> IF isNew THEN Plus(res.catalog.wordCount, 1)
                                 ELSE res.catalog.wordCount,
                   timestamp |-> t]]

\* a variant that counts every call in the set, also for a word that today's
\* Record already holds
appendAlwaysCounts(res, text, t) ==
  LET todayItem == res.latestSet.data[1]
      index == indexOf(todayItem.data, text)
      isNew == index = -1
      words == unshift(IF isNew THEN todayItem.data ELSE splice1(todayItem.data, index),
                       text)
  IN [latestSet |-> [res.latestSet EXCEPT
                       !.wordCount = Plus(@, 1),
                       !.data[1].data = words],
      catalog |-> [data |-> res.catalog.data,
                   wordCount |-> IF isNew THEN Plus(res.catalog.wordCount, 1)
                                 ELSE res.catalog.wordCount,
                   timestamp |-> t]]

\* the word is counted if new, and moved or put in front of today's words
append(res, text, t) ==
  LET todayItem == res.latestSet.data[1]
      index == indexOf(todayItem.data, text)
      isNew == index = -1
      words == unshift(IF isNew THEN todayItem.data ELSE splice1(todayItem.data, index),
                       text)
  IN [latestSet |-> [res.latestSet EXCEPT
                       !.wordCount = IF isNew THEN Plus(@, 1) ELSE @,
                       !.data[1].data = words],
      catalog |-> [data |-> res.catalog.data,
                   wordCount |-> IF isNew THEN Plus(res.catalog.wordCount, 1)
                                 ELSE res.catalog.wordCount,
                   timestamp |-> t]]

\* a variant that saves the catalog and leaves the set for another write
appendAndSaveCatalogOnly(res, text, name, t) ==
  [k \in {name} |-> append(res, text, t).catalog]

\* the items handed to storage.local.set
appendAndSave(res, text, name, t) ==
  LET r == append(res, text, t)
  IN [k \in {name, r.latestSet.id} |->
        IF k = r.latestSet.id THEN r.latestSet ELSE r.catalog]

----------------------------------------------------------------------------
(* getAllWords, getRecordSet, getWordCount *)

\* for (let j = 0; j < items; j++) result = result.concat(items[j].data)
RECURSIVE concatItems(_, _, _)
concatItems(items, j, result) ==
  IF NumberLessThanArray(j, items)
  THEN concatItems(items, j + 1, result \o items[j + 1].data)
  ELSE result

\* for (let i = 0; i < setIds.length; i++): reading .data of a missing set throws
RECURSIVE flattenSets(_, _, _, _)
flattenSets(setIds, allSets, i, result) ==
  IF i < Len(setIds)
  THEN IF Lookup(allSets, setIds[i + 1]) = Undefined
       THEN [threw |-> TRUE, value |-> <<>>]
       ELSE flattenSets(setIds, allSets, i + 1,
                        concatItems(allSets[setIds[i + 1]].data, 0, result))
  ELSE [threw |-> FALSE, value |-> result]

\* a variant that takes the last page for out of range
HasPageBeforeLast(catalog, index) ==
  catalog # Undefined /\ index + 1 \in 1..(Len(catalog.data) - 1)

\* catalog && catalog.data[index]
HasPage(catalog, index) ==
  catalog # Undefined /\ index + 1 \in 1..Len(catalog.data)

----------------------------------------------------------------------------
(* The store the program starts from *)

\* the words of a day on which the rollover threshold was reached, latest first
SeedWords == [i \in 1..RolloverThreshold |-> RolloverThreshold + 1 - i]

\* the set opened by the first addRecord of day k - 1 and filled on that day
SeedSet(k) ==
  [id |-> NewId((k - 1) * TicksPerDay),
   data |-> << [date |-> getToday((k - 1) * TicksPerDay), data |-> SeedWords] >>,
   wordCount |-> RolloverThreshold]

\* the store of area "a" after n days of RolloverThreshold new words each,
\* the last of them today: the value left by n * RolloverThreshold addRecord calls
SeedStore(n) ==
  LET ids == {NewId((k - 1) * TicksPerDay) : k \in 1..n}
      catalog == [data |-> [i \in 1..n |-> NewId((n - i) * TicksPerDay)],
                  wordCount |-> n * RolloverThreshold,
                  timestamp |-> (n - 1) * TicksPerDay]
      setOf(id) == SeedSet(CHOOSE k \in 1..n : NewId((k - 1) * TicksPerDay) = id)
  IN [key \in ids \cup {catName("a")} |->
        IF key = catName("a") THEN catalog ELSE setOf(key)]

\* the clock when the program starts: the day of the latest seeded set
StartNow == (MaxSets - 1) * TicksPerDay

\* numbers of sets a behaviour can start with
SeedSizes == {0, MaxSets}

----------------------------------------------------------------------------
(* State *)

NoInfo == [none |-> TRUE]

Idle ==
  [op |-> "none", area |-> "", text |-> 0, index |-> 0, pc |-> "idle",
   catalog |-> Undefined, latestSet |-> Undefined, items |-> Undefined, g |-> NoInfo]

NoRet == [op |-> "none"]

InitStore(k) ==
  /\ store \in {IF n = 0 THEN [key \in {} |-> Undefined] ELSE SeedStore(n) : n \in SeedSizes}
  /\ now = StartNow
  /\ calls = [c \in 1..NCalls |-> Idle]
  /\ removals = <<>>
  /\ ret = NoRet
  /\ prev = NoRet
  /\ ops = 0
  /\ limit = k

\* callers that overlap their calls
Init == InitStore(NCalls)

\* a caller that makes a call only after the last one has settled
InitSeq == InitStore(1)

Writes(op) == op \in {"addRecord", "clearRecords"}

\* a new call takes the first free slot
\* the settlement of the last step becomes history
Shift == prev' = IF Writes(ret.op) THEN ret ELSE prev

\* a step in which no call settles
Quiet == ret' = NoRet /\ Shift

\* the calls that the bound of a behaviour counts
Counted(op) == Writes(op) \/ limit > 1

CanCall(c, op) ==
  /\ Counted(op) => ops < (IF limit = 1 THEN MaxSeqOps ELSE MaxOps)
  /\ c <= limit
  /\ calls[c].pc = "idle"
  /\ \A d \in 1..(c - 1) : calls[d].pc # "idle"

Begin(c, op, area, text, index) ==
  /\ CanCall(c, op)
  /\ calls' = [calls EXCEPT ![c] =
        [Idle EXCEPT !.op = op, !.area = area, !.text = text, !.index = index,
                     !.pc = "getCat"]]
  /\ ops' = IF Counted(op) THEN ops + 1 ELSE ops
  /\ Quiet
  /\ UNCHANGED <<store, now, removals, limit>>

\* the promise of call c settles
Settle(c, status, value) ==
  LET r == [op |-> calls[c].op, area |-> calls[c].area, text |-> calls[c].text,
            index |-> calls[c].index, status |-> status, value |-> value,
            g |-> calls[c].g]
  IN /\ ret' = r
     /\ Shift
     /\ calls' = [calls EXCEPT ![c] = Idle]

At(c, op, pc) == calls[c].op = op /\ calls[c].pc = pc

----------------------------------------------------------------------------
(* addRecord *)

addRecord(c, area, text) == Begin(c, "addRecord", area, text, 0)

\* history: what the call read, and what it hands to storage.local.set
AddInfo(path, pre, latest, text, t, healed, items, name, removes) ==
  LET hadToday == latest # Undefined /\ Len(latest.data) > 0
                    /\ latest.data[1].date = getToday(t)
      catalog == Lookup(items, name)
      first == IF catalog = Undefined THEN Undefined ELSE Lookup(items, catalog.data[1])
  IN [path |-> path,
      today |-> getToday(t),
      pre |-> pre,
      latestId |-> IF latest = Undefined THEN "" ELSE latest.id,
      latestWordCount |-> IF latest = Undefined THEN 0 ELSE latest.wordCount,
      hadToday |-> hadToday,
      wasNew |-> ~(hadToday /\ text \in Range(latest.data[1].data)),
      healed |-> healed,
      keys |-> DOMAIN items,
      catalog |-> catalog,
      setWordCount |-> IF first = Undefined THEN NaN ELSE first.wordCount,
      removes |-> removes]

\* .then(getTodayItem).then(res => appendAndSave(res, text, catName)), up to
\* the call of storage.local.set
Proceed(c, path, pre, latest, r, healed) ==
  LET a == calls[c]
      res == getTodayItem(r.catalog, r.latestSet, now)
      items == appendAndSave(res, a.text, catName(a.area), now)
  IN /\ calls' = [calls EXCEPT
          ![c].pc = "set", ![c].items = items,
          ![c].catalog = Undefined, ![c].latestSet = Undefined,
          ![c].g = AddInfo(path, pre, latest, a.text, now, healed, items,
                           catName(a.area), res.removes)]
     /\ removals' = removals \o res.removes

\* storage.local.get(catName) resolves
addRecordGotCatalog(c) ==
  /\ At(c, "addRecord", "getCat")
  /\ LET catalog == Lookup(store, catName(calls[c].area))
     IN IF NoCatalog(catalog)
        THEN Proceed(c, "new", catalog, Undefined, getLatestSetNew(now), NoInfo)
        ELSE /\ calls' = [calls EXCEPT ![c].pc = "getLatest", ![c].catalog = catalog]
             /\ UNCHANGED removals
  /\ Quiet
  /\ UNCHANGED <<store, now, ops, limit>>

\* storage.local.get(id) resolves
addRecordGotLatestSet(c) ==
  /\ At(c, "addRecord", "getLatest")
  /\ LET catalog == calls[c].catalog
         id == catalog.data[1]
         latestSet == Lookup(StorageGet(store, {id}), id)
     IN IF latestSet # Undefined
        THEN Proceed(c, "found", catalog, latestSet,
                     [catalog |-> catalog, latestSet |-> latestSet], NoInfo)
        ELSE /\ calls' = [calls EXCEPT ![c].pc = "getAll",
                                       ![c].latestSet = EmptySet(now)]
             /\ UNCHANGED removals
  /\ Quiet
  /\ UNCHANGED <<store, now, ops, limit>>

\* storage.local.get(catalog.data) resolves
addRecordGotAllSets(c) ==
  /\ At(c, "addRecord", "getAll")
  /\ LET catalog == calls[c].catalog
         allSets == StorageGet(store, Range(catalog.data))
         r == getLatestSetHeal(catalog, calls[c].latestSet, allSets)
     IN Proceed(c, "heal", catalog, Undefined, r,
                [from |-> catalog.data,
                 resolved |-> DOMAIN allSets,
                 counts |-> [id \in DOMAIN allSets |-> allSets[id].wordCount],
                 catalog |-> r.catalog,
                 latestSet |-> r.latestSet])
  /\ Quiet
  /\ UNCHANGED <<store, now, ops, limit>>

\* storage.local.set resolves
addRecordSaved(c) ==
  /\ At(c, "addRecord", "set")
  /\ store' = StorageSet(store, calls[c].items)
  /\ Settle(c, "ok", Undefined)
  /\ UNCHANGED <<now, removals, ops, limit>>

----------------------------------------------------------------------------
(* clearRecords *)

clearRecords(c, area) == Begin(c, "clearRecords", area, 0, 0)

clearRecordsGotCatalog(c) ==
  /\ At(c, "clearRecords", "getCat")
  /\ LET catalog == Lookup(store, catName(calls[c].area))
     IN IF catalog # Undefined
        THEN /\ calls' = [calls EXCEPT ![c].pc = "remove", ![c].catalog = catalog]
             /\ Quiet
        ELSE Settle(c, "ok", Undefined)
  /\ UNCHANGED <<store, now, removals, ops, limit>>

\* storage.local.remove(catalog.data) resolves
clearRecordsRemoved(c) ==
  /\ At(c, "clearRecords", "remove")
  /\ store' = StorageRemove(store, Array(calls[c].catalog.data))
  /\ Settle(c, "ok", Undefined)
  /\ UNCHANGED <<now, removals, ops, limit>>

----------------------------------------------------------------------------
(* getAllWords *)

getAllWords(c, area) == Begin(c, "getAllWords", area, 0, 0)

getAllWordsGotCatalog(c) ==
  /\ At(c, "getAllWords", "getCat")
  /\ LET catalog == Lookup(store, catName(calls[c].area))
     IN IF catalog = Undefined
        THEN Settle(c, "ok", <<>>)
        ELSE /\ calls' = [calls EXCEPT ![c].pc = "getAll", ![c].catalog = catalog]
             /\ Quiet
  /\ UNCHANGED <<store, now, removals, ops, limit>>

\* storage.local.get(setIds) resolves
getAllWordsGotAllSets(c) ==
  /\ At(c, "getAllWords", "getAll")
  /\ LET setIds == calls[c].catalog.data
         allSets == StorageGet(store, Range(setIds))
         r == flattenSets(setIds, allSets, 0, <<>>)
     IN Settle(c, IF r.threw THEN "typeError" ELSE "ok", r.value)
  /\ UNCHANGED <<store, now, removals, ops, limit>>

----------------------------------------------------------------------------
(* getRecordSet *)

getRecordSet(c, area, index) == Begin(c, "getRecordSet", area, 0, index)

\* the result {}
EmptyObject == [empty |-> TRUE]

getRecordSetGotCatalog(c) ==
  /\ At(c, "getRecordSet", "getCat")
  /\ LET catalog == Lookup(store, catName(calls[c].area))
     IN IF HasPage(catalog, calls[c].index)
        THEN /\ calls' = [calls EXCEPT ![c].pc = "getSet", ![c].catalog = catalog]
             /\ Quiet
        ELSE Settle(c, "ok", EmptyObject)
  /\ UNCHANGED <<store, now, removals, ops, limit>>

\* storage.local.get(id) resolves
getRecordSetGotSet(c) ==
  /\ At(c, "getRecordSet", "getSet")
  /\ LET catalog == calls[c].catalog
         id == catalog.data[calls[c].index + 1]
         res == StorageGet(store, {id})
     IN Settle(c, "ok", [recordSet |-> Lookup(res, id), pageCount |-> Len(catalog.data)])
  /\ UNCHANGED <<store, now, removals, ops, limit>>

----------------------------------------------------------------------------
(* getWordCount *)

getWordCount(c, area) == Begin(c, "getWordCount", area, 0, 0)

\* a variant that reads catalog.wordCount without testing the catalog
getWordCountUnguarded(c) ==
  /\ At(c, "getWordCount", "getCat")
  /\ LET catalog == Lookup(store, catName(calls[c].area))
     IN IF catalog # Undefined
        THEN Settle(c, "ok", catalog.wordCount)
        ELSE Settle(c, "typeError", Undefined)
  /\ UNCHANGED <<store, now, removals, ops, limit>>

getWordCountGotCatalog(c) ==
  /\ At(c, "getWordCount", "getCat")
  /\ LET catalog == Lookup(store, catName(calls[c].area))
     IN Settle(c, "ok", IF catalog # Undefined THEN catalog.wordCount ELSE 0)
  /\ UNCHANGED <<store, now, removals, ops, limit>>

----------------------------------------------------------------------------
(* The environment: the clock and the storage backend *)

Tick ==
  /\ now < StartNow + MaxTicks
  /\ now' = now + 1
  /\ Quiet
  /\ UNCHANGED <<store, calls, removals, ops, limit>>

\* a storage.local.remove whose promise nobody holds takes effect
removeSettled(i) ==
  /\ i \in 1..Len(removals)
  /\ store' = StorageRemove(store, removals[i])
  /\ removals' = [j \in 1..(Len(removals) - 1) |->
                    IF j < i THEN removals[j] ELSE removals[j + 1]]
  /\ Quiet
  /\ UNCHANGED <<now, calls, ops, limit>>

\* the storage call a chain waits for fails: the rejection reaches the caller,
\* no callback of the chain runs. Failures are injected into the calls that
\* write.
storageFailed(c) ==
  /\ calls[c].pc # "idle"
  /\ Writes(calls[c].op)
  /\ Settle(c, "storageError", Undefined)
  /\ UNCHANGED <<store, now, removals, ops, limit>>

----------------------------------------------------------------------------
(* Specifications *)

Next ==
  \/ \E c \in 1..NCalls, area \in Areas : \E text \in Words(area) : addRecord(c, area, text)
  \/ \E c \in 1..NCalls : addRecordGotCatalog(c)
  \/ \E c \in 1..NCalls : addRecordGotLatestSet(c)
  \/ \E c \in 1..NCalls : addRecordGotAllSets(c)
  \/ \E c \in 1..NCalls : addRecordSaved(c)
  \/ \E c \in 1..NCalls, area \in Areas : clearRecords(c, area)
  \/ \E c \in 1..NCalls : clearRecordsGotCatalog(c)
  \/ \E c \in 1..NCalls : clearRecordsRemoved(c)
  \/ \E c \in 1..NCalls, area \in ReadAreas : getAllWords(c, area)
  \/ \E c \in 1..NCalls : getAllWordsGotCatalog(c)
  \/ \E c \in 1..NCalls : getAllWordsGotAllSets(c)
  \/ \E c \in 1..NCalls, area \in ReadAreas, index \in Indexes : getRecordSet(c, area, index)
  \/ \E c \in 1..NCalls : getRecordSetGotCatalog(c)
  \/ \E c \in 1..NCalls : getRecordSetGotSet(c)
  \/ \E c \in 1..NCalls, area \in ReadAreas : getWordCount(c, area)
  \/ \E c \in 1..NCalls : getWordCountGotCatalog(c)
  \/ Tick
  \/ \E i \in 1..MaxOps : removeSettled(i)
  \/ \E c \in 1..NCalls : storageFailed(c)

\* any interleaving of the calls
Spec == Init /\ [][Next]_vars

\* one call at a time
SpecSeq == InitSeq /\ [][Next]_vars

----------------------------------------------------------------------------
(* Vocabulary of the properties *)

\* the call that settled in the last step
Settled(op) == ret.op = op

SettledOk(op) == ret.op = op /\ ret.status = "ok"

\* the catalog of an area in storage
StoredCatalog(area) == Lookup(store, catName(area))

\* the addRecord found its latest set in storage, at or over the threshold and
\* without a Record for today: the condition under which a new set is opened
TriggersRollover(g) ==
  g.path = "found" /\ ~g.hadToday /\ g.latestWordCount >= RolloverThreshold

\* the sum of wordCount over the sets a list of ids refers to
RECURSIVE SumOfSets(_)
SumOfSets(ids) ==
  IF ids = <<>> THEN 0
  ELSE (IF Head(ids) \in DOMAIN store THEN store[Head(ids)].wordCount ELSE 0)
         + SumOfSets(Tail(ids))

----------------------------------------------------------------------------
(* C1 Capacity eviction *)

\* C1: when the catalog holds exactly MaxSets ids and an addRecord triggers
\* rollover, the stored catalog has exactly MaxSets ids, the new set's id
\* first and the oldest id removed, and once the addRecord has completed (and
\* the removal it issued has settled) the evicted id is no key of storage.
C1_CapacityEviction ==
  (/\ SettledOk("addRecord")
   /\ TriggersRollover(ret.g)
   /\ Len(ret.g.pre.data) = MaxSets
   /\ removals = <<>>)
  => LET catalog == StoredCatalog(ret.area)
         evicted == ret.g.pre.data[MaxSets]
     IN /\ Len(catalog.data) = MaxSets
        /\ Tail(catalog.data) = SubSeq(ret.g.pre.data, 1, MaxSets - 1)
        /\ catalog.data[1] \in DOMAIN store
        /\ evicted \notin DOMAIN store

----------------------------------------------------------------------------
(* C2 Aggregate count *)

\* C2: after every completed addRecord or clearRecords of calls made one at a
\* time, the stored catalog's wordCount is the sum of wordCount over the sets
\* that catalog.data refers to.
C2_AggregateCount ==
  ((SettledOk("addRecord") \/ SettledOk("clearRecords"))
     /\ StoredCatalog(ret.area) # Undefined)
  => StoredCatalog(ret.area).wordCount = SumOfSets(StoredCatalog(ret.area).data)

----------------------------------------------------------------------------
(* C3 Round trip *)

\* C3: after addRecord(area, x) has completed successfully, getAllWords(area)
\* returns a sequence whose first element is x.
C3_RoundTrip ==
  (/\ Settled("getAllWords")
   /\ prev.op = "addRecord" /\ prev.status = "ok" /\ prev.area = ret.area)
  => /\ ret.status = "ok"
     /\ Len(ret.value) > 0
     /\ ret.value[1] = prev.text

----------------------------------------------------------------------------
(* C4 Rollover threshold *)

\* the addRecord opened a new set: its id is first in the stored catalog, in
\* front of the ids the catalog held, the new set is stored with wordCount 1
\* and the old latest set keeps its wordCount
OpenedNewSet ==
  LET catalog == StoredCatalog(ret.area)
      id == catalog.data[1]
  IN /\ Len(catalog.data) >= 2
     /\ id # ret.g.latestId
     /\ Tail(catalog.data) = SubSeq(ret.g.pre.data, 1, Len(catalog.data) - 1)
     /\ id \in DOMAIN store
     /\ store[id].id = id
     /\ store[id].wordCount = 1
     /\ ret.g.latestId \in DOMAIN store
     /\ store[ret.g.latestId].wordCount = RolloverThreshold

\* C4 as stated: when the latest set has wordCount = RolloverThreshold, the
\* next addRecord of a word not in today's Record opens a new set.
C4_RolloverAtThreshold ==
  (/\ SettledOk("addRecord")
   /\ ret.g.path = "found"
   /\ ret.g.latestWordCount = RolloverThreshold
   /\ ret.g.wasNew)
  => OpenedNewSet

\* C4 amended: when the latest set has wordCount = RolloverThreshold and its
\* first Record is not dated today, the next addRecord opens a new set, puts
\* its id in front of catalog.data and stores it with wordCount 1, and the old
\* set keeps wordCount RolloverThreshold.
C4_RolloverOnNewDay ==
  (/\ SettledOk("addRecord")
   /\ ret.g.path = "found"
   /\ ret.g.latestWordCount = RolloverThreshold
   /\ ~ret.g.hadToday)
  => OpenedNewSet

\* an addRecord on a new day found its latest set exactly at the threshold
C4_Witness ==
  /\ SettledOk("addRecord")
  /\ ret.g.path = "found"
  /\ ret.g.latestWordCount = RolloverThreshold
  /\ ~ret.g.hadToday
  /\ ret.g.wasNew

----------------------------------------------------------------------------
(* C5 Referential integrity *)

\* C5: after every completed addRecord or clearRecords of calls made one at a
\* time, every id of the stored catalog's data is a key of storage.
C5_ReferentialIntegrity ==
  ((SettledOk("addRecord") \/ SettledOk("clearRecords"))
     /\ StoredCatalog(ret.area) # Undefined)
  => \A id \in Range(StoredCatalog(ret.area).data) : id \in DOMAIN store

----------------------------------------------------------------------------
(* C6 No fault on missing data *)

\* C6: a call fails only when a storage call fails; no call faults on data that
\* is missing from storage.
C6_NoFaultOnMissingData ==
  ret.op # "none" => ret.status \in {"ok", "storageError"}

----------------------------------------------------------------------------
(* C7 Idempotent re-append *)

\* today's words of the latest set of the stored catalog
TodayWords(area) == store[StoredCatalog(area).data[1]].data[1].data

\* C7: within one day, addRecord(area, w) after addRecord(area, w) leaves w in
\* front of today's Record exactly once and both counts as the first call left
\* them; two addRecord of distinct words that are new to today's Record, both
\* appending to the set the first one found, increase both counts by exactly 2.
C7_IdempotentReAppend ==
  (/\ SettledOk("addRecord")
   /\ prev.op = "addRecord" /\ prev.status = "ok" /\ prev.area = ret.area
   /\ prev.g.today = ret.g.today)
  => /\ prev.text = ret.text
          => /\ TodayWords(ret.area)[1] = ret.text
             /\ Cardinality({i \in DOMAIN TodayWords(ret.area) :
                               TodayWords(ret.area)[i] = ret.text}) = 1
             /\ ret.g.setWordCount = prev.g.setWordCount
             /\ ret.g.catalog.wordCount = prev.g.catalog.wordCount
     /\ (/\ prev.text # ret.text
         /\ prev.g.wasNew /\ ret.g.wasNew
         /\ prev.g.path = "found" /\ ~TriggersRollover(prev.g))
          => /\ ret.g.setWordCount = prev.g.latestWordCount + 2
             /\ ret.g.catalog.wordCount = prev.g.pre.wordCount + 2

----------------------------------------------------------------------------
(* C8 Self-heal *)

\* the sum of the counts of a list of ids
RECURSIVE SumOfCounts(_, _)
SumOfCounts(ids, counts) ==
  IF ids = <<>> THEN 0
  ELSE counts[ids[Len(ids)]] + SumOfCounts(SubSeq(ids, 1, Len(ids) - 1), counts)

\* what getLatestSet returned to a call that found its latest set missing
Healed(c) == calls[c].g.healed

IsHealing(c) == At(c, "addRecord", "set") /\ calls[c].g.path = "heal"

\* C8: when the set under the first id of a non-empty catalog is missing,
\* getLatestSet returns a catalog whose data is the id of a new empty set
\* followed by the listed ids that resolve in storage, in their order, and
\* whose wordCount is the sum of the wordCount of the resolved sets; the new
\* set has no Record and wordCount 0.
C8_SelfHeal ==
  \A c \in 1..NCalls :
    IsHealing(c) =>
      LET h == Healed(c)
          kept == SelectSeq(h.from, LAMBDA id : id \in h.resolved)
      IN /\ h.from[1] \notin h.resolved
         /\ h.catalog.data = <<h.latestSet.id>> \o kept
         /\ h.catalog.wordCount = SumOfCounts(kept, h.counts)
         /\ h.latestSet.data = <<>>
         /\ h.latestSet.wordCount = 0

\* a heal in which some of the other ids resolve and some are missing
C8_Witness ==
  \E c \in 1..NCalls :
    /\ IsHealing(c)
    /\ Healed(c).resolved # {}
    /\ Healed(c).catalog.wordCount > 0
    /\ Len(Healed(c).from) >= 3
    /\ Len(Healed(c).catalog.data) = Len(Healed(c).from)

----------------------------------------------------------------------------
(* C9 Capacity bound *)

----------------------------------------------------------------------------
(* C10 Atomic persist *)

\* storage holds the catalog that a settled addRecord saved
HoldsCatalogOf(r) == StoredCatalog(r.area) = r.g.catalog

\* storage holds the latest set that a settled addRecord saved
HoldsSetOf(r) ==
  LET id == r.g.catalog.data[1]
  IN /\ id \in DOMAIN store
     /\ store[id].wordCount = r.g.setWordCount
     /\ store[id].data[1].date = r.g.today
     /\ store[id].data[1].data[1] = r.text

\* C10 as stated, the half about the set: storage never holds the latest set
\* that an addRecord produced without the catalog that the same addRecord
\* produced. It is stated of the addRecord before the last one, when the last
\* one wrote another set.
C10_NeverSetWithoutCatalog ==
  (/\ SettledOk("addRecord")
   /\ prev.op = "addRecord" /\ prev.status = "ok"
   /\ prev.g.catalog.data[1] \notin ret.g.keys
   /\ HoldsSetOf(prev))
  => HoldsCatalogOf(prev)

\* the catalog and the latest set of the addRecord that just settled are both
\* in storage, written by one storage.local.set of two keys
BothSaved ==
  LET catalog == StoredCatalog(ret.area)
      id == ret.g.catalog.data[1]
  IN /\ ret.g.keys = {catName(ret.area), id}
     /\ catalog = ret.g.catalog
     /\ id \in DOMAIN store
     /\ store[id].id = id
     /\ store[id].wordCount = ret.g.setWordCount
     /\ store[id].data[1].date = ret.g.today
     /\ store[id].data[1].data[1] = ret.text

\* C10 amended: each addRecord issues one storage.local.set that carries the
\* catalog under the catalog key and the latest set under its id; when it
\* succeeds both are in storage in the same step, and when it fails storage
\* is unchanged.
C10_AtomicPersist ==
  [][\A c \in 1..NCalls :
       (At(c, "addRecord", "set") /\ calls'[c].pc = "idle")
         => \/ ret'.status = "ok" /\ BothSaved'
            \/ ret'.status = "storageError" /\ store' = store]_vars

\* two overlapping addRecord have both been saved
C10_Witness ==
  /\ SettledOk("addRecord")
  /\ prev.op = "addRecord" /\ prev.status = "ok"
  /\ limit > 1
  /\ ops = MaxOps
  /\ BothSaved

----------------------------------------------------------------------------
(* C11 Lost update *)

\* the last two addRecord that settled worked on the same reads: the same
\* catalog, the same latest set in the same state, on the same day, and they
\* wrote the same set
SameReads ==
  /\ prev.g.pre = ret.g.pre
  /\ prev.g.path = ret.g.path
  /\ prev.g.latestId = ret.g.latestId
  /\ prev.g.latestWordCount = ret.g.latestWordCount
  /\ prev.g.today = ret.g.today
  /\ prev.g.catalog.data = ret.g.catalog.data

\* two addRecord on the same area with distinct words that are new to today's
\* Record have both succeeded, neither opened a set over a full catalog, and
\* both had read before either wrote
RacedAppends ==
  /\ SettledOk("addRecord")
  /\ prev.op = "addRecord" /\ prev.status = "ok"
  /\ prev.area = ret.area
  /\ prev.text # ret.text
  /\ prev.g.wasNew /\ ret.g.wasNew
  /\ prev.g.path \in {"new", "found"}
  /\ prev.g.removes = <<>> /\ ret.g.removes = <<>>
  /\ SameReads

\* the count of the catalog that an addRecord read
ReadCount(g) == IF NoCatalog(g.pre) THEN 0 ELSE g.pre.wordCount

\* the update of the addRecord that wrote first is lost: today's stored Record
\* holds the word of the last writer and not the word of the first, and both
\* counts have grown by 1
LostUpdate ==
  LET catalog == StoredCatalog(ret.area)
      id == catalog.data[1]
  IN /\ catalog = ret.g.catalog
     /\ catalog.wordCount = ReadCount(ret.g) + 1
     /\ id \in DOMAIN store
     /\ store[id].wordCount = ret.g.latestWordCount + 1
     /\ store[id].data[1].date = ret.g.today
     /\ store[id].data[1].data[1] = ret.text
     /\ prev.text \notin Range(store[id].data[1].data)
     /\ Len(store[id].data[1].data) =
          (IF ret.g.hadToday THEN ret.g.latestWordCount ELSE 0) + 1

\* C11: a lost update is reachable. Whenever two addRecord calls on the same
\* area with two distinct new words both read the catalog and the latest set
\* before either writes and both complete successfully, the stored today's
\* Record holds only one of the two words and catalog.wordCount has grown by
\* 1 instead of 2; C11_Witness is such an interleaving.
C11_LostUpdateReachable == RacedAppends => LostUpdate

\* the interleaving: both calls found the latest set, and the word of the
\* first writer is gone
C11_Witness ==
  /\ RacedAppends
  /\ limit > 1
  /\ ret.g.path = "found"
  /\ LostUpdate
  /\ StoredCatalog(ret.area).wordCount = ReadCount(prev.g) + 1

----------------------------------------------------------------------------
(* C12 Empty namespace *)

\* the calls that read the catalog and write nothing when there is none
ReadsOrClears == {"getAllWords", "getWordCount", "getRecordSet", "clearRecords"}

\* call c has asked for the catalog of an area that has none
OnEmptyNamespace(c) ==
  /\ calls[c].op \in ReadsOrClears
  /\ calls[c].pc = "getCat"
  /\ StoredCatalog(calls[c].area) = Undefined

\* C12: on an area without a catalog key, getAllWords returns the empty
\* sequence, getWordCount returns 0, getRecordSet returns an empty result and
\* clearRecords succeeds, each in the callback of the catalog read (unless
\* that read fails), and the call neither writes nor removes anything.
C12_EmptyNamespace ==
  [][\A c \in 1..NCalls :
       (OnEmptyNamespace(c) /\ calls'[c] # calls[c] /\ ret'.status # "storageError")
         => /\ ret'.op = calls[c].op /\ ret'.area = calls[c].area
            /\ ret'.status = "ok"
            /\ calls[c].op = "getAllWords" => ret'.value = <<>>
            /\ calls[c].op = "getWordCount" => ret'.value = 0
            /\ calls[c].op = "getRecordSet" => ret'.value = EmptyObject
            /\ calls[c].op = "clearRecords" => ret'.value = Undefined
            /\ calls'[c] = Idle
            /\ store' = store
            /\ removals' = removals]_vars

\* getWordCount has returned 0 for an area without a catalog, after a
\* clearRecords of that area that had nothing to clear
C12_Witness ==
  /\ SettledOk("getWordCount")
  /\ ret.value = 0
  /\ StoredCatalog(ret.area) = Undefined
  /\ prev.op = "clearRecords" /\ prev.status = "ok" /\ prev.area = ret.area
  /\ store = << >>

----------------------------------------------------------------------------
(* C13 Failure propagation *)

\* C13: addRecord reports the failure of every storage call it issued, the
\* removal of the evicted set included; so it never reports success while a
\* storage.local.remove that it issued is still outstanding. Stated of calls
\* made one at a time, where an outstanding removal is one of the call that
\* just settled.
C13_FailurePropagation ==
  (SettledOk("addRecord") /\ ret.g.removes # <<>>) => removals = <<>>

----------------------------------------------------------------------------
(* C14 Namespace isolation *)

\* the catalog of an area and the sets that it refers to, as storage holds them
AreaData(st, area) ==
  LET catalog == Lookup(st, catName(area))
  IN [catalog |-> catalog,
      sets |-> IF catalog = Undefined THEN << >>
               ELSE StorageGet(st, Range(catalog.data))]

\* C14: no step of an addRecord or a clearRecords on an area changes the
\* catalog of another area or a set that the catalog of another area refers
\* to, in any interleaving, the two areas creating sets at the same clock
\* value included.
C14_NamespaceIsolation ==
  [][\A c \in 1..NCalls :
       (Writes(calls[c].op) /\ calls'[c] # calls[c])
         => \A area \in Areas \ {calls[c].area} :
              AreaData(store', area) = AreaData(store, area)]_vars

----------------------------------------------------------------------------
(* C15 No rotation on an existing day *)

\* call c is about to receive its latest set, which is in storage with a
\* first Record dated today
FindsToday(c) ==
  /\ At(c, "addRecord", "getLatest")
  /\ calls[c].catalog.data[1] \in DOMAIN store
  /\ HasToday(store[calls[c].catalog.data[1]], getToday(now))

\* C15: when the latest set is in storage and its first Record is dated
\* today, addRecord reuses that Record: the catalog it saves has the data it
\* read, the set it saves is the latest set with the same Records but for the
\* words of the first, and it removes nothing - whatever the set's wordCount.
C15_NoRotationOnExistingDay ==
  [][\A c \in 1..NCalls :
       (FindsToday(c) /\ calls'[c] # calls[c] /\ calls'[c].pc # "idle")
         => LET id == calls[c].catalog.data[1]
                items == calls'[c].items
            IN /\ calls'[c].pc = "set"
               /\ DOMAIN items = {catName(calls[c].area), id}
               /\ items[catName(calls[c].area)].data = calls[c].catalog.data
               /\ items[id].id = id
               /\ Len(items[id].data) = Len(store[id].data)
               /\ Tail(items[id].data) = Tail(store[id].data)
               /\ items[id].data[1].date = getToday(now)
               /\ removals' = removals]_vars

\* an addRecord found today's Record in a latest set at or over the threshold
C15_Witness ==
  \E c \in 1..NCalls :
    /\ At(c, "addRecord", "set")
    /\ calls[c].g.path = "found"
    /\ calls[c].g.hadToday
    /\ calls[c].g.latestWordCount >= RolloverThreshold
    /\ calls[c].g.catalog.data = calls[c].g.pre.data

----------------------------------------------------------------------------
(* C16 Word ordering and uniqueness *)

\* as many distinct words as places
NoDuplicates(words) == Cardinality(Range(words)) = Len(words)

\* call c takes the step in which it computes what it hands to
\* storage.local.set
Computes(c) ==
  /\ calls[c].op = "addRecord"
  /\ calls[c].pc # "set"
  /\ calls'[c].pc = "set"

\* the words of today's Record that call c reads in this step: those of the
\* first Record of the latest set if it is dated today, none otherwise
WordsRead(c) ==
  IF At(c, "addRecord", "getLatest")
       /\ HasToday(store[calls[c].catalog.data[1]], getToday(now))
  THEN store[calls[c].catalog.data[1]].data[1].data
  ELSE <<>>

\* the set that call c hands to storage.local.set
SetToSave(c) == calls[c].items[calls[c].items[catName(calls[c].area)].data[1]]

\* C16: in every set that addRecord(area, w) hands to storage, today's Record
\* is the first one, its words are w followed by the words the Record had
\* without w, in their order, and no word occurs twice in a Record.
C16_WordOrder ==
  [][\A c \in 1..NCalls :
       Computes(c)
         => LET set == SetToSave(c)'
                words == set.data[1].data
            IN /\ set.data[1].date = getToday(now)
               /\ words = <<calls[c].text>>
                            \o SelectSeq(WordsRead(c), LAMBDA w : w # calls[c].text)
               /\ \A k \in 1..Len(set.data) : NoDuplicates(set.data[k].data)]_vars

\* an addRecord of a word that today's Record already held has been saved:
\* the word is in front and the Record is as long as it was
C16_Witness ==
  /\ SettledOk("addRecord")
  /\ ret.g.hadToday /\ ~ret.g.wasNew
  /\ TodayWords(ret.area)[1] = ret.text
  /\ Len(TodayWords(ret.area)) = ret.g.latestWordCount
  /\ Len(TodayWords(ret.area)) > RolloverThreshold

----------------------------------------------------------------------------
(* C17 One Record per day per set *)

\* the number of the calendar day that a date key names, counted from Epoch
DayNumber(date) ==
  CHOOSE k \in 0..((StartNow + MaxTicks) \div TicksPerDay) :
    getToday(k * TicksPerDay) = date

\* the Records are dated most recent first, no two with the same date
WellDated(data) ==
  \A i \in 1..(Len(data) - 1) : DayNumber(data[i].date) > DayNumber(data[i + 1].date)

\* the keys of storage that hold a set
SetKeys(st) == DOMAIN st \ {catName(area) : area \in Areas}

\* C17: with a clock that never goes back, the Records of every set that is
\* handed to storage, and of every set in storage, carry pairwise distinct
\* dates and are ordered most recent date first, in any interleaving.
C17_OneRecordPerDay ==
  /\ \A id \in SetKeys(store) : WellDated(store[id].data)
  /\ \A c \in 1..NCalls :
       At(c, "addRecord", "set")
         => \A id \in SetKeys(calls[c].items) : WellDated(calls[c].items[id].data)

\* an addRecord on a new day has put a second Record in front of the first
C17_Witness ==
  /\ SettledOk("addRecord")
  /\ ret.g.path = "found" /\ ~ret.g.hadToday
  /\ ret.g.latestId \in DOMAIN store
  /\ Len(store[ret.g.latestId].data) = 2
  /\ store[ret.g.latestId].data[1].date = ret.g.today
  /\ store[ret.g.latestId].data[2].date # ret.g.today

----------------------------------------------------------------------------
(* C18 Paging *)

\* what getRecordSet(area, index) is to return on the storage it ran on
PageOf(area, index) ==
  LET catalog == StoredCatalog(area)
  IN IF catalog = Undefined \/ index \notin 0..(Len(catalog.data) - 1)
     THEN EmptyObject
     ELSE [recordSet |-> Lookup(store, catalog.data[index + 1]),
           pageCount |-> Len(catalog.data)]

\* C18: getRecordSet(area, index) returns an empty result when the catalog is
\* absent or index is outside 0..len(catalog.data)-1, and otherwise what
\* storage holds under catalog.data[index] together with pageCount =
\* len(catalog.data); no step of it modifies storage. Stated of calls made
\* one at a time, where storage is the same from the call to its result.
C18_Paging ==
  /\ [](Settled("getRecordSet")
          => ret.status = "ok" /\ ret.value = PageOf(ret.area, ret.index))
  /\ [][\A c \in 1..NCalls :
          ((calls[c].op = "getRecordSet" \/ calls'[c].op = "getRecordSet")
             /\ calls'[c] # calls[c])
            => store' = store /\ removals' = removals]_vars

\* getRecordSet has returned the first page of a full catalog
C18_Witness ==
  /\ Settled("getRecordSet")
  /\ ret.index = 0
  /\ StoredCatalog(ret.area) # Undefined
  /\ Len(StoredCatalog(ret.area).data) = MaxSets
  /\ ret.value # EmptyObject
  /\ ret.value.pageCount = MaxSets
  /\ ret.value.recordSet # Undefined
  /\ ret.value.recordSet.id = StoredCatalog(ret.area).data[1]

----------------------------------------------------------------------------
(* C19 Set word count matches content *)

\* the number of words in the Records of a set
RECURSIVE WordsHeld(_)
WordsHeld(data) ==
  IF data = <<>> THEN 0 ELSE Len(Head(data).data) + WordsHeld(Tail(data))

\* C19: in every set that addRecord hands to storage, and so in every set in
\* storage, wordCount is the number of words held in the set's Records, in
\* any interleaving of addRecord and clearRecords.
C19_SetCountMatchesContent ==
  /\ \A id \in SetKeys(store) : store[id].wordCount = WordsHeld(store[id].data)
  /\ \A c \in 1..NCalls :
       At(c, "addRecord", "set")
         => \A id \in SetKeys(calls[c].items) :
              calls[c].items[id].wordCount = WordsHeld(calls[c].items[id].data)

\* a word has been appended again to a Record that held it: the set's count
\* is the one that was read and the number of words it holds
C19_Witness ==
  /\ SettledOk("addRecord")
  /\ ret.g.hadToday /\ ~ret.g.wasNew
  /\ LET id == StoredCatalog(ret.area).data[1]
     IN /\ id \in DOMAIN store
        /\ store[id].wordCount = ret.g.latestWordCount
        /\ store[id].wordCount = WordsHeld(store[id].data)

----------------------------------------------------------------------------
(* C20 Recovery after clear *)

\* the last two calls that wrote: a clearRecords that succeeded on an area
\* with a stored catalog, then an addRecord on that area that succeeded
AddAfterClear ==
  /\ SettledOk("addRecord")
  /\ prev.op = "clearRecords" /\ prev.status = "ok" /\ prev.area = ret.area
  /\ ret.g.pre # Undefined

\* C20: after clearRecords(area) has completed on an area with a stored
\* catalog, the next addRecord(area, w) leaves a stored catalog with exactly
\* one id, that of a new set in storage, and wordCount 1; the set holds one
\* Record, dated today, with the words [w], and has wordCount 1.
C20_RecoveryAfterClear ==
  AddAfterClear
    => LET catalog == StoredCatalog(ret.area)
       IN /\ catalog # Undefined
          /\ Len(catalog.data) = 1
          /\ catalog.wordCount = 1
          /\ catalog.data[1] \in DOMAIN store
          /\ store[catalog.data[1]] =
               [id |-> catalog.data[1],
                data |-> << [date |-> ret.g.today, data |-> <<ret.text>>] >>,
                wordCount |-> 1]

\* an addRecord has recovered an area whose cleared catalog listed MaxSets sets
C20_Witness ==
  /\ AddAfterClear
  /\ ret.g.path = "heal"
  /\ Len(ret.g.pre.data) = MaxSets
  /\ Len(StoredCatalog(ret.area).data) = 1

====
